---- MODULE Spec2Model ----
(***************************************************************************)
(* Redline engine of adeu (docx-md-docx): the text-to-run Mapper           *)
(* (src/src/adeu/redline/mapper.py), the RedlineEngine                     *)
(* (src/src/adeu/redline/engine.py) and the diff-to-edit compiler          *)
(* (src/src/adeu/diff.py), as a state machine over a document tree.        *)
(*                                                                         *)
(* A document is a sequence of paragraphs; a paragraph is the sequence of  *)
(* its child elements.  A child is a live run (w:r), an insertion wrapper  *)
(* (w:ins) or a deletion wrapper (w:del).  Text is a sequence of           *)
(* one-character strings.  A run has an identity (nid), because the Mapper *)
(* keeps references to run objects and a run replaced by a deletion        *)
(* wrapper stays referenced by the Mapper's spans after it left the tree.  *)
(***************************************************************************)
EXTENDS Integers, Sequences, FiniteSets, TLC

VARIABLES
    doc,           \* RedlineEngine.doc: the paragraphs of the body
    mapper,        \* RedlineEngine.mapper: [full_text, spans]
    current_id,    \* RedlineEngine.current_id
    pc,            \* where the caller of the engine stands
    edits,         \* the edit list handed to apply_edits
    sorted_edits,  \* apply_edits' local sorted_edits
    idx,           \* position of apply_edits' for loop in sorted_edits
    ret,           \* what apply_edits returned
    orig_doc,      \* the document as it was after construction
    text_mod,      \* handle_apply's text_mod ("None" for a JSON edit list)
    last,          \* what the last _apply_single_edit call did
    log,           \* per processed edit: did find_target_runs resolve it
    asked,         \* the author string the caller constructs the engine with
    author,        \* RedlineEngine.author
    timestamp      \* RedlineEngine.timestamp

\* What the engine stamps revisions with, and what it was asked to.
attribution == <<asked, author, timestamp>>

vars == <<doc, mapper, current_id, pc, edits, sorted_edits, idx, ret,
          orig_doc, text_mod, last, log, attribution>>

----------------------------------------------------------------------------
(* Bounds of the model. *)

MaxDocLen == 3     \* characters of text in a document
MaxEdits == 2      \* edits in one edit list
MaxTarget == 2     \* characters of an edit's target_text
MaxWideLen == 4    \* characters of text in a document of WideDocs

----------------------------------------------------------------------------
(* Characters.  TAB stands for the characters python-docx stores as an     *)
(* element of their own in a run (w:tab, w:br) and not inside w:t.         *)

TAB == "\t"
NL == "\n"
Letters == {"a", "b"}
Chars == Letters \cup {TAB}
\* Python's None, where a text or a tuple may stand.
None == <<"None">>

Min(a, b) == IF a < b THEN a ELSE b
Max(a, b) == IF a > b THEN a ELSE b

RECURSIVE Concat(_)
Concat(ss) == IF ss = <<>> THEN <<>> ELSE Head(ss) \o Concat(Tail(ss))

\* Python's s[:k] and s[k:], negative k counted from the end.
PyIndex(s, k) == IF k < 0 THEN Max(Len(s) + k, 0) ELSE Min(k, Len(s))
SliceTo(s, k) == SubSeq(s, 1, PyIndex(s, k))
SliceFrom(s, k) == SubSeq(s, PyIndex(s, k) + 1, Len(s))

\* Python's str.find: the first index (from 0) where t occurs in s, or -1.
Occurs(s, t, i) == i + Len(t) <= Len(s) /\ SubSeq(s, i + 1, i + Len(t)) = t
Find(s, t) ==
    LET hits == {i \in 0..Len(s) : Occurs(s, t, i)}
    IN IF hits = {} THEN -1 ELSE CHOOSE i \in hits : \A j \in hits : i <= j

IsSubstring(t, s) == Find(s, t) # -1

----------------------------------------------------------------------------
(* The document tree. *)

Run(text, rPr, nid) ==
    [kind |-> "r", text |-> text, rPr |-> rPr, id |-> 0, nid |-> nid]

\* Paragraph.runs of python-docx: the w:r elements that are direct children
\* of the paragraph; a run inside w:ins or w:del is not among them.
IsRun(n) == n.kind = "r"

Places(d) == UNION {{<<p, i>> : i \in 1..Len(d[p])} : p \in 1..Len(d)}
Loc(d, nid) == {pl \in Places(d) : IsRun(d[pl[1]][pl[2]]) /\ d[pl[1]][pl[2]].nid = nid}
\* run._element.getparent() is not None
IsLive(d, nid) == Loc(d, nid) # {}
PlaceOf(d, nid) == CHOOSE pl \in Loc(d, nid) : TRUE
NodeOf(d, nid) == LET pl == PlaceOf(d, nid) IN d[pl[1]][pl[2]]

InsertAt(s, i, e) == SubSeq(s, 1, i - 1) \o <<e>> \o SubSeq(s, i, Len(s))

----------------------------------------------------------------------------
(* DocumentMapper. *)

RECURSIVE BuildFrom(_, _, _, _, _, _)
BuildFrom(d, p, i, offset, spans, text) ==
    IF p > Len(d) THEN [full_text |-> text, spans |-> spans]
    ELSE IF i > Len(d[p])
    THEN BuildFrom(d, p + 1, 1, offset + 2, spans, text \o <<NL, NL>>)
    ELSE LET n == d[p][i]
         IN IF ~IsRun(n) \/ Len(n.text) = 0
            THEN BuildFrom(d, p, i + 1, offset, spans, text)
            ELSE BuildFrom(d, p, i + 1, offset + Len(n.text),
                           Append(spans, [start |-> offset,
                                          end |-> offset + Len(n.text),
                                          text |-> n.text,
                                          run |-> n.nid,
                                          paragraph |-> p]),
                           text \o n.text)

_build_map(d) == BuildFrom(d, 1, 1, 0, <<>>, <<>>)

\* A run object never seen before: Run(new_r_element, run._parent).
MaxNid(s) == IF s = {} THEN 0 ELSE CHOOSE n \in s : \A k \in s : k <= n
FreshNid(d, m) ==
    1 + MaxNid({d[pl[1]][pl[2]].nid : pl \in Places(d)}
               \cup {m.spans[i].run : i \in 1..Len(m.spans)})

\* What stays in the copy of the left run once its w:t children are removed:
\* run.text = left_text rewrote the run with every tab and line break as an
\* element of its own, and only w:t is cleaned from the deep copy.
KeptLeaves(text) == SelectSeq(text, LAMBDA c : c = TAB)

\* _split_run_at_index, lines 134-163, for the run at place pl of d; new is
\* the identity of the run it creates.
SplitAt(d, pl, run, split_index, new) ==
    [d EXCEPT ![pl[1]] =
        InsertAt([@ EXCEPT ![pl[2]].text = SliceTo(run.text, split_index)],
                 pl[2] + 1,
                 Run(KeptLeaves(SliceTo(run.text, split_index))
                       \o SliceFrom(run.text, split_index),
                     run.rPr, new))]

\* _split_run_at_index on a run that is a child of a paragraph.
_split_run_at_index(d, nid, split_index, new) ==
    SplitAt(d, PlaceOf(d, nid), NodeOf(d, nid), split_index, new)

\* What find_target_runs hands back: the runs, the tree and the map as it
\* left them, and crash when it raised AttributeError instead of returning
\* (parent is None in _split_run_at_index, for a run that left the tree).
Found(m, d, runs, start_idx) ==
    [runs |-> runs, doc |-> d, mapper |-> m, crash |-> FALSE, start_idx |-> start_idx]
Raised(m, d, start_idx) ==
    [runs |-> <<>>, doc |-> d, mapper |-> m, crash |-> TRUE, start_idx |-> start_idx]

\* find_target_runs, lines 110-127: the right boundary, the rebuild, the return.
RightBoundary(m, d, start_idx, extra_len, working_runs, new, dom_modified) ==
    IF extra_len > 0
    THEN IF ~IsLive(d, working_runs[Len(working_runs)])
         THEN Raised(m, d, start_idx)
         ELSE Found(_build_map(
                      _split_run_at_index(d, working_runs[Len(working_runs)],
                          Len(NodeOf(d, working_runs[Len(working_runs)]).text) - extra_len,
                          new)),
                    _split_run_at_index(d, working_runs[Len(working_runs)],
                          Len(NodeOf(d, working_runs[Len(working_runs)]).text) - extra_len,
                          new),
                    working_runs, start_idx)
    ELSE Found(IF dom_modified THEN _build_map(d) ELSE m, d, working_runs, start_idx)

\* find_target_runs, lines 96-108: the left boundary.
LeftBoundary(m, d, start_idx, end_idx, affected_spans, working_runs, new) ==
    IF start_idx - affected_spans[1].start > 0
    THEN IF ~IsLive(d, working_runs[1])
         THEN Raised(m, d, start_idx)
         ELSE RightBoundary(m,
                  _split_run_at_index(d, working_runs[1],
                                      start_idx - affected_spans[1].start, new),
                  start_idx, affected_spans[Len(affected_spans)].end - end_idx,
                  [working_runs EXCEPT ![1] = new], new + 1, TRUE)
    ELSE RightBoundary(m, d, start_idx,
                       affected_spans[Len(affected_spans)].end - end_idx,
                       working_runs, new, FALSE)

\* find_target_runs, lines 86-96.
AffectedSpans(m, d, start_idx, end_idx) ==
    SelectSeq(m.spans, LAMBDA s : s.end > start_idx /\ s.start < end_idx)

FromSpans(m, d, start_idx, end_idx, affected_spans) ==
    IF affected_spans = <<>> THEN Found(m, d, <<>>, start_idx)
    ELSE LeftBoundary(m, d, start_idx, end_idx, affected_spans,
                      [i \in 1..Len(affected_spans) |-> affected_spans[i].run],
                      FreshNid(d, m))

FromIndex(m, d, target_text, start_idx) ==
    IF start_idx = -1 THEN Found(m, d, <<>>, start_idx)
    ELSE FromSpans(m, d, start_idx, start_idx + Len(target_text),
                   AffectedSpans(m, d, start_idx, start_idx + Len(target_text)))

\* find_target_runs(target_text) on the map m of the tree d.
find_target_runs(m, d, target_text) ==
    FromIndex(m, d, target_text, Find(m.full_text, target_text))

----------------------------------------------------------------------------
(* RedlineEngine: the revision builder. *)

\* A counter that is never advanced.
SameId(cid) == cid

\* RedlineEngine._get_next_id: the counter after the increment, which is
\* also the id handed out.
_get_next_id(cid) == cid + 1

\* An inserted run that copies no run properties.
PlainInsert(text, rPr, id) ==
    [kind |-> "ins", text |-> text, rPr |-> 0, id |-> id, nid |-> 0,
     author |-> author, date |-> timestamp]

\* track_insert: the w:ins element for text, styled from the anchor run.
\* _create_track_change_tag stamps it with self.author and self.timestamp.
track_insert(text, rPr, id) ==
    [kind |-> "ins", text |-> text, rPr |-> rPr, id |-> id, nid |-> 0,
     author |-> author, date |-> timestamp]

\* track_delete_run: [doc, current_id, crash].  The revision id is taken
\* when the tag is created, before run._r.getparent().replace(...), which
\* raises AttributeError for a run that has no parent.
track_delete_run(d, cid, nid) ==
    LET id == _get_next_id(cid)
    IN IF ~IsLive(d, nid)
       THEN [doc |-> d, current_id |-> id, crash |-> TRUE]
       ELSE LET pl == PlaceOf(d, nid)
                run == d[pl[1]][pl[2]]
                del_tag == [kind |-> "del", text |-> run.text, rPr |-> run.rPr,
                            id |-> id, nid |-> 0,
                            author |-> author, date |-> timestamp]
            IN [doc |-> [d EXCEPT ![pl[1]][pl[2]] = del_tag],
                current_id |-> id, crash |-> FALSE]

\* for run in target_runs: track_delete_run(run), from the k-th run on.
RECURSIVE DeleteRuns(_, _, _, _)
DeleteRuns(d, cid, runs, k) ==
    IF k > Len(runs) THEN [doc |-> d, current_id |-> cid, crash |-> FALSE]
    ELSE LET r == track_delete_run(d, cid, runs[k])
         IN IF r.crash THEN r ELSE DeleteRuns(r.doc, r.current_id, runs, k + 1)

\* Python's "not edit.proposed_new_text"
Falsy(new_text) == new_text = None \/ new_text = <<>>

\* What _apply_single_edit did: the tree, the map and the counter as it left
\* them, the runs find_target_runs f returned with their text, and outcome:
\*   "not_found"  find_target_runs returned the empty list
\*   "empty_new"  returned early: INSERTION / MODIFICATION without new text
\*   "applied"    ran to its end
\*   "crash"      an AttributeError left the call (and apply_edits)
\* found_doc is the tree as find_target_runs left it.
Outcome(f, d, cid, outcome) ==
    [doc |-> d, mapper |-> f.mapper, current_id |-> cid, outcome |-> outcome,
     found |-> f.runs, found_doc |-> f.doc,
     found_text |-> IF \A i \in 1..Len(f.runs) : IsLive(f.doc, f.runs[i])
                    THEN [i \in 1..Len(f.runs) |-> NodeOf(f.doc, f.runs[i]).text]
                    ELSE <<>>]

\* The element put in front of the child at place pl.
InsertBefore(d, pl, ins_elem) == [d EXCEPT ![pl[1]] = InsertAt(@, pl[2], ins_elem)]

\* parent.insert(index + 1, ins_elem) after the child at place pl.
InsertAfter(d, pl, ins_elem) == [d EXCEPT ![pl[1]] = InsertAt(@, pl[2] + 1, ins_elem)]

\* _apply_single_edit, lines 123-125, r the outcome of the loop.
Deletion(f, r) ==
    Outcome(f, r.doc, r.current_id, IF r.crash THEN "crash" ELSE "applied")

\* _apply_single_edit, lines 127-151, r the outcome of the loop of line 133.
Modification(edit, f, r, last_run) ==
    IF r.crash THEN Outcome(f, r.doc, r.current_id, "crash")
    ELSE Outcome(f,
                 InsertAfter(r.doc, PlaceOf(f.doc, last_run),
                             track_insert(edit.new_text, NodeOf(f.doc, last_run).rPr,
                                          _get_next_id(r.current_id))),
                 _get_next_id(r.current_id), "applied")

\* _apply_single_edit, lines 153-164.  parent = last_run._r.getparent() is
\* None for a run that left the tree, and parent.index raises.
Insertion(edit, f, cid, last_run) ==
    IF ~IsLive(f.doc, last_run) THEN Outcome(f, f.doc, cid, "crash")
    ELSE Outcome(f,
                 InsertAfter(f.doc, PlaceOf(f.doc, last_run),
                             track_insert(edit.new_text, NodeOf(f.doc, last_run).rPr,
                                          _get_next_id(cid))),
                 _get_next_id(cid), "applied")

\* _apply_single_edit from line 110 on, f what find_target_runs handed back.
\* Line 117 reads target_runs[0]._element.getparent().tag, which raises for
\* a first run that left the tree.
Resolved(edit, cid, f) ==
    IF f.crash THEN Outcome(f, f.doc, cid, "crash")
    ELSE IF f.runs = <<>> THEN Outcome(f, f.doc, cid, "not_found")
    ELSE IF ~IsLive(f.doc, f.runs[1]) THEN Outcome(f, f.doc, cid, "crash")
    ELSE IF edit.operation = "DELETION"
    THEN Deletion(f, DeleteRuns(f.doc, cid, f.runs, 1))
    ELSE IF Falsy(edit.new_text) THEN Outcome(f, f.doc, cid, "empty_new")
    ELSE IF edit.operation = "MODIFICATION"
    THEN Modification(edit, f, DeleteRuns(f.doc, cid, f.runs, 1), f.runs[Len(f.runs)])
    ELSE Insertion(edit, f, cid, f.runs[Len(f.runs)])

\* _apply_single_edit(edit) with the map m, the tree d and the counter cid.
_apply_single_edit(m, d, cid, edit) ==
    Resolved(edit, cid, find_target_runs(m, d, edit.target_text))

\* The edits in the order they were given.
InputOrder(es) == es

\* sorted(edits, key=lambda x: len(x.target_text), reverse=True): Python's
\* sort is stable, also with reverse=True.
RECURSIVE sorted_by_length(_)
sorted_by_length(es) ==
    IF es = <<>> THEN <<>>
    ELSE LET n == Len(es)
             front == sorted_by_length(SubSeq(es, 1, n - 1))
             e == es[n]
             k == Cardinality({i \in 1..Len(front) :
                                 Len(front[i].target_text) >= Len(e.target_text)})
         IN InsertAt(front, k + 1, e)

----------------------------------------------------------------------------
(* Construction: RedlineEngine.__init__. *)

\* normalize_docx: adjacent runs with equal run properties are coalesced
\* (their text concatenated, the first run kept) and empty runs dropped.
RECURSIVE NormalizeParagraph(_)
NormalizeParagraph(p) ==
    IF p = <<>> THEN <<>>
    ELSE LET rest == NormalizeParagraph(Tail(p))
             h == Head(p)
         IN IF IsRun(h) /\ h.text = <<>> THEN rest
            ELSE IF rest # <<>> /\ IsRun(h) /\ IsRun(rest[1]) /\ h.rPr = rest[1].rPr
            THEN <<[h EXCEPT !.text = h.text \o rest[1].text]>> \o Tail(rest)
            ELSE <<h>> \o rest

normalize_docx(d) == [p \in 1..Len(d) |-> NormalizeParagraph(d[p])]

\* The documents an engine is built from.  A document is a text of at most
\* MaxDocLen characters and, between two neighbouring characters, one of:
\* nothing, a run boundary where the run properties change ("run"), a run
\* boundary where they do not ("same"), a paragraph boundary ("para").  Run
\* properties are 0 (the run has no w:rPr) or 1.
Cuts == {"none", "run", "same", "para"}

RECURSIVE BuildDoc(_, _, _, _)
BuildDoc(text, cuts, k, d) ==
    IF k > Len(text) THEN d
    ELSE LET c == <<text[k]>>
             np == Len(d)
             par == d[np]
             cur == par[Len(par)]
         IN IF k = 1 THEN BuildDoc(text, cuts, 2, << <<Run(c, 0, 1)>> >>)
            ELSE IF cuts[k - 1] = "none"
            THEN BuildDoc(text, cuts, k + 1,
                          [d EXCEPT ![np][Len(par)].text = @ \o c])
            ELSE IF cuts[k - 1] = "para"
            THEN BuildDoc(text, cuts, k + 1, Append(d, <<Run(c, 0, k)>>))
            ELSE BuildDoc(text, cuts, k + 1,
                          [d EXCEPT ![np] = Append(@,
                              Run(c, IF cuts[k - 1] = "run" THEN 1 - cur.rPr ELSE cur.rPr, k))])

RawDocs ==
    UNION {{BuildDoc(text, cuts, 1, <<>>) :
              text \in [1..n -> Chars], cuts \in [1..(n - 1) -> Cuts]} :
           n \in 1..MaxDocLen}

Docs == {normalize_docx(d) : d \in RawDocs}

\* Documents with spaces: at most MaxDocLen characters, each a space or
\* the letter a, in one paragraph.
SpacedDocs ==
    UNION {{normalize_docx(BuildDoc(text, cuts, 1, <<>>)) :
              text \in [1..n -> {" ", "a"}], cuts \in [1..(n - 1) -> {"none", "run"}]} :
           n \in 1..MaxDocLen}

\* Longer documents of a plainer kind: MaxWideLen letters, every letter a
\* run of its own whose run properties differ from its neighbour's, cut
\* into paragraphs in every way.
WideDocs ==
    {normalize_docx(BuildDoc(text, cuts, 1, <<>>)) :
        text \in [1..MaxWideLen -> Letters],
        cuts \in [1..(MaxWideLen - 1) -> {"run", "para"}]}

----------------------------------------------------------------------------
(* Edit lists. *)

Operations == {"INSERTION", "DELETION", "MODIFICATION"}

\* An edit with the private attribute _match_start_index set to k; NoIndex
\* stands for its default, None.
NoIndex == -1
EditAt(op, target, new, k) ==
    [operation |-> op, target_text |-> target, new_text |-> new,
     _match_start_index |-> k]

Edit(op, target, new) == EditAt(op, target, new, NoIndex)

Strings(S, lo, hi) == UNION {[1..n -> S] : n \in lo..hi}

\* The targets a caller names for document d: what it reads in the flat
\* view, and single characters whether they occur or not.
Targets(d) ==
    {t \in Strings(Chars \cup {NL}, 1, MaxTarget) :
        Len(t) = 1 \/ IsSubstring(t, _build_map(d).full_text)}

NewTexts == {None, <<"a">>}

\* The positional insertion a caller makes at the end of the text of d: no
\* anchor text, the match-start index at the end.
AtEnd(d) ==
    EditAt("INSERTION", <<>>, <<"a">>, Len(_build_map(d).full_text) - 2)

EditsFor(d) ==
    {Edit("DELETION", t, None) : t \in Targets(d)}
    \cup {Edit(op, t, new) : op \in {"INSERTION", "MODIFICATION"},
                             t \in Targets(d), new \in NewTexts}
    \cup {AtEnd(d)}

EditLists(d) == Strings(EditsFor(d), 0, MaxEdits)

----------------------------------------------------------------------------
(* The diff compiler: src/src/adeu/diff.py. *)

AnchorTail == 50      \* last_equal_text[-50:]
LookaheadHead == 20   \* next_text[:20]
SPACE == " "

Diff(op, text) == [op |-> op, text |-> text]

RECURSIVE CommonPrefix(_, _)
CommonPrefix(a, b) ==
    IF a = <<>> \/ b = <<>> \/ Head(a) # Head(b) THEN 0
    ELSE 1 + CommonPrefix(Tail(a), Tail(b))

RECURSIVE Reverse(_)
Reverse(a) == IF a = <<>> THEN <<>> ELSE Append(Reverse(Tail(a)), Head(a))

CommonSuffix(a, b) == CommonPrefix(Reverse(a), Reverse(b))

EndsWith(a, b) == Len(b) <= Len(a) /\ SubSeq(a, Len(a) - Len(b) + 1, Len(a)) = b

NonEmpty(ds) == SelectSeq(ds, LAMBDA x : x.text # <<>>)

\* diff_main's result for one change point: the common prefix pre and
\* suffix suf are split off, del and ins are what is left of the two texts.
\* Its closing diff_cleanupMerge slides a lone edit that ends with the
\* equality before it over that equality.
OneChange(pre, del, ins, suf) ==
    IF pre # <<>> /\ suf # <<>> /\ del = <<>> /\ EndsWith(ins, pre)
    THEN <<Diff(1, pre \o SubSeq(ins, 1, Len(ins) - Len(pre))), Diff(0, pre \o suf)>>
    ELSE IF pre # <<>> /\ suf # <<>> /\ ins = <<>> /\ EndsWith(del, pre)
    THEN <<Diff(-1, pre \o SubSeq(del, 1, Len(del) - Len(pre))), Diff(0, pre \o suf)>>
    ELSE NonEmpty(<<Diff(0, pre), Diff(-1, del), Diff(1, ins), Diff(0, suf)>>)

Middle(a, b, pre, suf) == SubSeq(a, pre + 1, Len(a) - suf)

SplitOff(a, b, pre) ==
    OneChange(SubSeq(a, 1, pre),
              Middle(a, b, pre, CommonSuffix(SliceFrom(a, pre), SliceFrom(b, pre))),
              Middle(b, a, pre, CommonSuffix(SliceFrom(a, pre), SliceFrom(b, pre))),
              SliceFrom(a, Len(a) - CommonSuffix(SliceFrom(a, pre), SliceFrom(b, pre))))

\* A pair of texts with two change points: a is one letter x followed by
\* two or more copies of another letter, b is the same copies followed by
\* x.  The copies are the only longest common subsequence, so the shortest
\* edit script is: delete x, keep the copies, insert x; the equality is
\* longer than the edits around it and diff_cleanupSemantic keeps it.
Shifted(a, b) ==
    /\ Len(a) = Len(b)
    /\ Len(a) >= 3
    /\ Tail(a) = SubSeq(b, 1, Len(b) - 1)
    /\ a[1] = b[Len(b)]
    /\ \A i \in 2..Len(a) : a[i] \in Letters /\ a[i] = a[2] /\ a[i] # a[1]
    /\ a[1] \in Letters

ShiftDiff(a, b) == <<Diff(-1, <<a[1]>>), Diff(0, Tail(a)), Diff(1, <<a[1]>>)>>

\* dmp.diff_main(original_text, modified_text) followed by
\* dmp.diff_cleanupSemantic(diffs), for the pairs of Comparable.
diff_main(original_text, modified_text) ==
    IF original_text = modified_text
    THEN NonEmpty(<<Diff(0, original_text)>>)
    ELSE IF Shifted(original_text, modified_text)
    THEN ShiftDiff(original_text, modified_text)
    ELSE SplitOff(original_text, modified_text,
                  CommonPrefix(original_text, modified_text))

\* The pairs of texts whose diff the library settles without bisecting and
\* without word-boundary scores: texts of letters that differ in one place,
\* where one side of the change is empty or a single character.
Changed(a, b, pre) ==
    Middle(a, b, pre, CommonSuffix(SliceFrom(a, pre), SliceFrom(b, pre)))
DmpSettled(a, b) ==
    \/ a = b
    \/ Len(Changed(a, b, CommonPrefix(a, b))) <= 1
    \/ Len(Changed(b, a, CommonPrefix(a, b))) <= 1

\* With a space in either text the change is at an end of the texts: no
\* edit then lies between two equalities, and the library's word-boundary
\* pass has nothing to move.
ChangeAtEnd(a, b) ==
    \/ CommonPrefix(a, b) = 0
    \/ CommonSuffix(SliceFrom(a, CommonPrefix(a, b)), SliceFrom(b, CommonPrefix(a, b))) = 0

\* The pairs of texts diff_main is computed for.
Comparable(a, b) ==
    \/ Shifted(a, b)
    \/ /\ DmpSettled(a, b)
       /\ (\E i \in 1..Len(a \o b) : (a \o b)[i] = SPACE) => ChangeAtEnd(a, b)

\* next_text.split(" ")[0] if " " in next_text else next_text[:20]
FirstToken(next_text) ==
    IF \E i \in 1..Len(next_text) : next_text[i] = SPACE
    THEN SubSeq(next_text, 1, Find(next_text, <<SPACE>>))
    ELSE SliceTo(next_text, LookaheadHead)

\* The body of generate_edits_from_text's loop for an insert segment.
InsertSegment(diffs, i, text, anchor) ==
    IF anchor # <<>> THEN <<Edit("INSERTION", anchor, text)>>
    ELSE IF i + 1 <= Len(diffs) /\ diffs[i + 1].op = 0
                /\ FirstToken(diffs[i + 1].text) # <<>>
    THEN <<Edit("MODIFICATION", FirstToken(diffs[i + 1].text),
                text \o FirstToken(diffs[i + 1].text))>>
    ELSE <<>>

\* generate_edits_from_text's loop over diffs, from the i-th segment on.
RECURSIVE Walk(_, _, _)
Walk(diffs, i, last_equal_text) ==
    IF i > Len(diffs) THEN <<>>
    ELSE IF diffs[i].op = 0 THEN Walk(diffs, i + 1, diffs[i].text)
    ELSE IF diffs[i].op = -1
    THEN <<Edit("DELETION", diffs[i].text, None)>> \o Walk(diffs, i + 1, last_equal_text)
    ELSE InsertSegment(diffs, i, diffs[i].text, SliceFrom(last_equal_text, -AnchorTail))
           \o Walk(diffs, i + 1, last_equal_text)

\* _merge_diffs
RECURSIVE _merge_diffs(_)
_merge_diffs(es) ==
    IF es = <<>> THEN <<>>
    ELSE IF Len(es) >= 2 /\ es[1].operation = "DELETION" /\ es[2].operation = "INSERTION"
    THEN <<Edit("MODIFICATION", es[1].target_text, es[2].new_text)>>
           \o _merge_diffs(SubSeq(es, 3, Len(es)))
    ELSE <<es[1]>> \o _merge_diffs(Tail(es))

generate_edits_from_text(original_text, modified_text) ==
    _merge_diffs(Walk(diff_main(original_text, modified_text), 1, <<>>))

\* extract_text_from_stream: the paragraphs' text joined with "\n\n".
RECURSIVE Joined(_)
Joined(ts) ==
    IF ts = <<>> THEN <<>>
    ELSE IF Len(ts) = 1 THEN ts[1]
    ELSE ts[1] \o <<NL, NL>> \o Joined(Tail(ts))

LiveText(par) == Concat([i \in 1..Len(par) |-> IF IsRun(par[i]) THEN par[i].text ELSE <<>>])
extract_text(d) == Joined([p \in 1..Len(d) |-> LiveText(d[p])])

----------------------------------------------------------------------------
(* The state machine. *)

NoLast == [edit |-> Edit("none", <<>>, None), outcome |-> "none", pre_doc |-> <<>>,
           pre_mapper |-> [full_text |-> <<>>, spans |-> <<>>],
           pre_id |-> 0, found |-> <<>>, found_doc |-> <<>>, found_text |-> <<>>]

\* The author strings a caller constructs the engine with; NoAuthor when it
\* passes none: RedlineEngine(stream).
NoAuthor == ""
Authors == {"Reviewer"}

\* RedlineEngine(doc_stream) for one of the documents of D.  __init__ takes
\* the document only: RedlineEngine(stream, author=...) raises TypeError and
\* there is no engine (pc = "rejected"; the other variables are then the
\* values the construction would have given).
Constructed(D) ==
    /\ doc \in D
    /\ mapper = _build_map(doc)
    /\ current_id = 0
    /\ asked \in {NoAuthor} \cup Authors
    /\ pc = IF asked = NoAuthor THEN "ready" ELSE "rejected"
    /\ author = "Adeu AI"
    /\ timestamp = "T0"
    /\ edits = <<>>
    /\ sorted_edits = <<>>
    /\ idx = 0
    /\ ret = <<"unset">>
    /\ orig_doc = doc
    /\ text_mod = None
    /\ last = NoLast
    /\ log = <<>>

Init == Constructed(Docs)

\* apply_edits up to its for loop, for the edit list es.
StartApply(es) ==
    /\ edits' = es
    /\ sorted_edits' = sorted_by_length(es)
    /\ idx' = 1
    /\ pc' = "loop"
    /\ UNCHANGED <<doc, mapper, current_id, ret, orig_doc, last, log, attribution>>

\* engine.apply_edits(edits) with an edit list of the caller's.
ApplyEdits ==
    /\ pc = "ready"
    /\ \E es \in EditLists(doc) :
          /\ StartApply(es)
          /\ UNCHANGED text_mod

\* One turn of apply_edits' for loop: self._apply_single_edit(edit).  An
\* AttributeError raised inside it leaves apply_edits.
Step(edit, r) ==
    /\ doc' = r.doc
    /\ mapper' = r.mapper
    /\ current_id' = r.current_id
    /\ pc' = IF r.outcome = "crash" THEN "raised" ELSE "loop"
    /\ idx' = idx + 1
    /\ last' = [edit |-> edit, outcome |-> r.outcome, pre_doc |-> doc,
                pre_mapper |-> mapper, pre_id |-> current_id,
                found |-> r.found, found_doc |-> r.found_doc,
                found_text |-> r.found_text]
    /\ log' = Append(log, r.outcome)
    /\ UNCHANGED <<edits, sorted_edits, ret, orig_doc, text_mod, attribution>>

ApplySingleEdit ==
    /\ pc = "loop"
    /\ idx <= Len(sorted_edits)
    /\ Step(sorted_edits[idx],
            _apply_single_edit(mapper, doc, current_id, sorted_edits[idx]))

\* The for loop is over: apply_edits has no return statement.
Return ==
    /\ pc = "loop"
    /\ idx > Len(sorted_edits)
    /\ pc' = "done"
    /\ ret' = None
    /\ UNCHANGED <<doc, mapper, current_id, edits, sorted_edits, idx,
                   orig_doc, text_mod, last, log, attribution>>

\* The texts a document is compared with.
ModTexts == Strings(Letters, 0, MaxDocLen + 1)
SpacedTexts == Strings({SPACE, "a"}, 0, MaxDocLen + 1)

\* The documents the diff compiler is run on: one paragraph of letters.
DiffDoc(d) == Len(d) = 1 /\ \A c \in Chars \ Letters : ~IsSubstring(<<c>>, extract_text(d))

\* edits = generate_edits_from_text(extract_text(doc), text_mod) followed by
\* engine.apply_edits(edits).
DiffAndApply ==
    /\ pc = "ready"
    /\ DiffDoc(doc)
    /\ \E mod \in ModTexts \cup SpacedTexts :
          /\ Comparable(extract_text(doc), mod)
          /\ StartApply(generate_edits_from_text(extract_text(doc), mod))
          /\ text_mod' = mod

Next == ApplyEdits \/ DiffAndApply \/ ApplySingleEdit \/ Return

Spec == Init /\ [][Next]_vars

\* The same engine on the documents of WideDocs.
InitWide == Constructed(WideDocs)
SpecWide == InitWide /\ [][Next]_vars

\* The same engine on the documents of SpacedDocs.
InitSpaced == Constructed(SpacedDocs)
SpecSpaced == InitSpaced /\ [][Next]_vars

----------------------------------------------------------------------------
(* Views of the document used by the properties. *)

Wrappers(d) == {pl \in Places(d) : ~IsRun(d[pl[1]][pl[2]])}
WrapperIds(d) == {d[pl[1]][pl[2]].id : pl \in Wrappers(d)}

TextOf(par, kinds) ==
    Concat([i \in 1..Len(par) |-> IF par[i].kind \in kinds THEN par[i].text ELSE <<>>])
FlatOf(d, kinds) == Concat([p \in 1..Len(d) |-> TextOf(d[p], kinds) \o <<NL, NL>>])

\* The flat text once every revision is rejected: insertions dropped,
\* deletions restored.
RejectAll(d) == FlatOf(d, {"r", "del"})
\* The flat text once every revision is accepted: insertions kept,
\* deleted text dropped.
AcceptAll(d) == FlatOf(d, {"r", "ins"})

CountOf(s, x) == Cardinality({i \in 1..Len(s) : s[i] = x})

----------------------------------------------------------------------------
(* Properties. *)

\* C1: apply_edits runs to completion on every edit list and returns the
\* pair (applied, skipped): the two add up to the number of edits, skipped
\* counts the edits whose target resolved to nothing, applied the others;
\* no edit aborts the edits after it.
C1_ReturnsCounts ==
    /\ pc # "raised"
    /\ pc = "done" =>
         /\ Len(ret) = 2
         /\ ret[1] + ret[2] = Len(edits)
         /\ ret[2] = CountOf(log, "not_found")

\* C2: whenever an edit's target is about to be resolved, the Mapper's flat
\* text and spans are those of a fresh scan of the document as it is now,
\* and every span's run is still a child of its paragraph.
C2_MapperFresh ==
    (pc = "loop" /\ idx <= Len(sorted_edits)) =>
        /\ mapper = _build_map(doc)
        /\ \A i \in 1..Len(mapper.spans) : IsLive(doc, mapper.spans[i].run)

\* The last resolution started from a map that was a fresh scan of the tree.
ResolvedFresh == last.outcome # "none" /\ last.pre_mapper = _build_map(last.pre_doc)

\* The offsets of the flat view that belong to no run: the separators.
InGap(m, k) == \A i \in 1..Len(m.spans) : ~(m.spans[i].start <= k /\ k < m.spans[i].end)
\* The match of length n at offset start touches the gap between two
\* paragraphs.
Straddles(m, start, n) ==
    \E k \in start..(start + n - 1) :
        /\ InGap(m, k)
        /\ \E i \in 1..Len(m.spans) : m.spans[i].start > k

\* The match of length n at offset start lies in the text of the runs of
\* one paragraph.
InsideRuns(m, start, n) == \A k \in start..(start + n - 1) : ~InGap(m, k)

FirstAt(m, target) == Find(m.full_text, target)

\* The runs are siblings that follow one another in the tree d.
Contiguous(d, runs) ==
    /\ \A i \in 1..Len(runs) : IsLive(d, runs[i])
    /\ \A i \in 1..(Len(runs) - 1) :
          /\ PlaceOf(d, runs[i])[1] = PlaceOf(d, runs[i + 1])[1]
          /\ PlaceOf(d, runs[i])[2] + 1 = PlaceOf(d, runs[i + 1])[2]

StartOf(d, nid) ==
    LET m == _build_map(d)
    IN {m.spans[i].start : i \in {j \in 1..Len(m.spans) : m.spans[j].run = nid}}

RunsText(f) ==
    IF \A i \in 1..Len(f.runs) : IsLive(f.doc, f.runs[i])
    THEN Concat([i \in 1..Len(f.runs) |-> NodeOf(f.doc, f.runs[i]).text])
    ELSE <<"detached">>

\* C3: for a target that is a substring of the flat view (and whose first
\* occurrence lies inside one paragraph), find_target_runs returns a
\* non-empty list of runs, contiguous siblings, at the first occurrence,
\* whose concatenated text is the target; a second call right after it
\* returns runs with that text again.
C3_FindsExactRuns ==
    (/\ ResolvedFresh
     /\ FirstAt(last.pre_mapper, last.edit.target_text) # -1
     /\ last.edit.target_text # <<>>
     /\ InsideRuns(last.pre_mapper, FirstAt(last.pre_mapper, last.edit.target_text),
                   Len(last.edit.target_text)))
    => /\ last.found # <<>>
       /\ Contiguous(last.found_doc, last.found)
       /\ StartOf(last.found_doc, last.found[1])
            = {FirstAt(last.pre_mapper, last.edit.target_text)}
       /\ Concat(last.found_text) = last.edit.target_text
       /\ RunsText(find_target_runs(mapper, last.found_doc, last.edit.target_text))
            = last.edit.target_text

\* C4: when the first occurrence of the target in the flat view overlaps a
\* paragraph separator, find_target_runs returns the empty list and splits
\* no run, and the edit is skipped: no revision wrapper is created.
C4_StraddleRefused ==
    (/\ ResolvedFresh
     /\ FirstAt(last.pre_mapper, last.edit.target_text) # -1
     /\ Straddles(last.pre_mapper, FirstAt(last.pre_mapper, last.edit.target_text),
                  Len(last.edit.target_text)))
    => /\ last.found = <<>>
       /\ last.found_doc = last.pre_doc
       /\ last.outcome = "not_found"
       /\ doc = last.pre_doc
       /\ current_id = last.pre_id

\* C5: rejecting every revision (insertions dropped, deletions turned back
\* into live runs) gives back the flat text the document had before any
\* edit: splits and deletions lose, duplicate and reorder nothing.
C5_Reversible == RejectAll(doc) = RejectAll(orig_doc)

\* One edit on a plain string with first-occurrence substring semantics; an
\* edit whose target does not occur, or an insertion or modification
\* without new text, leaves the string as it is.
Splice(s, i, n, new) == SubSeq(s, 1, i) \o new \o SubSeq(s, i + n + 1, Len(s))
StringEdit(s, edit) ==
    IF edit.target_text = <<>> \/ Find(s, edit.target_text) = -1 THEN s
    ELSE IF edit.operation = "DELETION"
    THEN Splice(s, Find(s, edit.target_text), Len(edit.target_text), <<>>)
    ELSE IF Falsy(edit.new_text) THEN s
    ELSE IF edit.operation = "MODIFICATION"
    THEN Splice(s, Find(s, edit.target_text), Len(edit.target_text), edit.new_text)
    ELSE Splice(s, Find(s, edit.target_text) + Len(edit.target_text), 0, edit.new_text)

RECURSIVE StringEdits(_, _)
StringEdits(s, es) == IF es = <<>> THEN s ELSE StringEdits(StringEdit(s, Head(es)), Tail(es))

HasChar(s, c) == \E i \in 1..Len(s) : s[i] = c

\* C6: after apply_edits, accepting every revision gives the flat text that
\* results from applying the same edits, in the engine's order, to the
\* original flat string, each edit on the result of the ones before it.
\* Stated for edit lists whose targets hold no paragraph separator (C4) and
\* documents without tabs (C5).
C6_Acceptance ==
    (/\ pc = "done"
     /\ ~HasChar(AcceptAll(orig_doc), TAB)
     /\ \A i \in 1..Len(edits) : ~HasChar(edits[i].target_text, NL))
    => AcceptAll(doc) = StringEdits(AcceptAll(orig_doc), sorted_edits)

NumWrappers(d) == Cardinality(Wrappers(d))

\* C7: the revision counter starts at 0 and every wrapper takes the next
\* integer, the first one 1: the ids of the wrappers in the document are
\* pairwise distinct, they are 1..n for n wrappers, and the counter equals
\* the number of wrappers created.  When apply_edits was left by an
\* exception, the last wrapper created may not have reached the tree.
C7_RevisionIds ==
    /\ pc = "ready" => current_id = 0
    /\ Cardinality(WrapperIds(doc)) = NumWrappers(doc)
    /\ WrapperIds(doc) = 1..NumWrappers(doc)
    /\ pc # "raised" => current_id = NumWrappers(doc)
    /\ pc = "raised" => current_id \in {NumWrappers(doc), NumWrappers(doc) + 1}

\* Two edits ran to their end and left three wrappers, a deletion and an
\* insertion among them.
C7_Witness ==
    /\ pc = "done"
    /\ NumWrappers(doc) = 3
    /\ current_id = 3
    /\ \E pl \in Wrappers(doc) : doc[pl[1]][pl[2]].kind = "ins"
    /\ \E pl \in Wrappers(doc) : doc[pl[1]][pl[2]].kind = "del"

\* An exception left apply_edits after a wrapper took an id and before it
\* was placed in the tree.
UnplacedWrapper == pc = "raised" /\ current_id = NumWrappers(doc) + 1

\* The paragraph that holds offset k of the flat view m.
ParagraphAt(m, k) ==
    LET i == CHOOSE j \in 1..Len(m.spans) : m.spans[j].start <= k /\ k < m.spans[j].end
    IN m.spans[i].paragraph

\* C9: when the target of an edit first occurs wholly inside one paragraph
\* of the document, applying the edit changes the children of that
\* paragraph only; every other paragraph keeps its runs and gets no
\* revision wrapper.
C9_Locality ==
    (/\ last.outcome # "none"
     /\ last.edit.target_text # <<>>
     /\ FirstAt(_build_map(last.pre_doc), last.edit.target_text) # -1
     /\ InsideRuns(_build_map(last.pre_doc),
                   FirstAt(_build_map(last.pre_doc), last.edit.target_text),
                   Len(last.edit.target_text)))
    => \A q \in 1..Len(doc) :
          q # ParagraphAt(_build_map(last.pre_doc),
                          FirstAt(_build_map(last.pre_doc), last.edit.target_text))
          => doc[q] = last.pre_doc[q]

\* out is es sorted by descending target length, ties in input order.
IsStableDescending(es, out) ==
    /\ Len(out) = Len(es)
    /\ \E f \in [1..Len(es) -> 1..Len(es)] :
          /\ \A i, j \in 1..Len(es) : i # j => f[i] # f[j]
          /\ \A i \in 1..Len(es) : out[i] = es[f[i]]
          /\ \A i, j \in 1..Len(es) :
                i < j => \/ Len(out[i].target_text) > Len(out[j].target_text)
                         \/ /\ Len(out[i].target_text) = Len(out[j].target_text)
                            /\ f[i] < f[j]

AcceptedText(d) == Joined([p \in 1..Len(d) |-> TextOf(d[p], {"r", "ins"})])

\* C8: the edits generate_edits_from_text(orig, mod) compiles, applied to a
\* document whose text is orig and then accepted, give mod; for an
\* insertion at the very start of the document exactly one edit is emitted.
C8_DiffRoundTrip ==
    (pc = "done" /\ text_mod # None) =>
        /\ AcceptedText(doc) = text_mod
        /\ (/\ Len(text_mod) > Len(extract_text(orig_doc))
            /\ EndsWith(text_mod, extract_text(orig_doc))
            /\ CommonPrefix(text_mod, extract_text(orig_doc)) = 0)
           => Len(edits) = 1

\* The last call ran to its end for an edit of one of the operations ops.
Applied(ops) == last.outcome = "applied" /\ last.edit.operation \in ops

\* The run of the tree before the last edit that holds the end of the
\* match: the run of the last span the match overlaps.
LastMatched ==
    LET a == AffectedSpans(last.pre_mapper, last.pre_doc,
                           FirstAt(last.pre_mapper, last.edit.target_text),
                           FirstAt(last.pre_mapper, last.edit.target_text)
                             + Len(last.edit.target_text))
    IN a[Len(a)].run

\* The wrappers the last edit added.
NewWrappers(kind) ==
    {pl \in Wrappers(doc) : /\ doc[pl[1]][pl[2]].kind = kind
                            /\ doc[pl[1]][pl[2]].id > last.pre_id}

\* C11: the run inside the insertion wrapper of an applied INSERTION or
\* MODIFICATION carries the run properties that the last target / anchor
\* run had before the edit (none when it had none), and the run inside a
\* deletion wrapper carries the run properties of the run it replaced.
C11_FormattingPreserved ==
    /\ Applied({"INSERTION", "MODIFICATION"}) =>
         /\ IsLive(last.pre_doc, LastMatched)
         /\ \A pl \in NewWrappers("ins") :
               doc[pl[1]][pl[2]].rPr = NodeOf(last.pre_doc, LastMatched).rPr
    /\ Applied({"DELETION", "MODIFICATION"}) =>
         \A i \in 1..Len(last.found) :
            LET pl == PlaceOf(last.found_doc, last.found[i])
            IN /\ doc[pl[1]][pl[2]].kind = "del"
               /\ doc[pl[1]][pl[2]].rPr = last.found_doc[pl[1]][pl[2]].rPr

\* An insertion after a split took the run properties of a formatted run.
C11_Witness ==
    /\ Applied({"INSERTION"})
    /\ last.found_doc # last.pre_doc
    /\ \E pl \in NewWrappers("ins") : doc[pl[1]][pl[2]].rPr = 1

\* The characters of the live runs of a paragraph, each with the run
\* properties of its run.
CharProps(par) ==
    Concat([i \in 1..Len(par) |->
              IF IsRun(par[i])
              THEN [j \in 1..Len(par[i].text) |-> <<par[i].text[j], par[i].rPr>>]
              ELSE <<>>])

NotRuns(par) == SelectSeq(par, LAMBDA n : ~IsRun(n))

\* C12: _split_run_at_index leaves the first k characters in the run and
\* puts the rest in a new run right after it, with equal run properties:
\* left text + right text is the text the run had, and no other sibling
\* moves.  Stated for the splits of the last find_target_runs call: every
\* paragraph reads the same, character by character with its run
\* properties, as before the call, gained at most two runs, and keeps its
\* other children in order.
C12_SplitFidelity ==
    last.outcome # "none" =>
        /\ Len(last.found_doc) = Len(last.pre_doc)
        /\ \A p \in 1..Len(last.pre_doc) :
              /\ CharProps(last.found_doc[p]) = CharProps(last.pre_doc[p])
              /\ NotRuns(last.found_doc[p]) = NotRuns(last.pre_doc[p])
              /\ Len(last.found_doc[p]) - Len(last.pre_doc[p]) \in 0..2

\* Place a comes before place b in document order.
Before(a, b) == a[1] < b[1] \/ (a[1] = b[1] /\ a[2] < b[2])

IsPrefix(t, text) == Len(t) <= Len(text) /\ SubSeq(text, 1, Len(t)) = t

\* apply_edits was given a DELETION of the leading text of a run and the
\* positional insertion at the end of the text.
DeleteAndInsertAtEnd ==
    /\ Len(edits) = 2
    /\ edits[1].operation = "DELETION"
    /\ \E pl \in Places(orig_doc) :
          /\ IsPrefix(edits[1].target_text, orig_doc[pl[1]][pl[2]].text)
          /\ edits[1].target_text # orig_doc[pl[1]][pl[2]].text
    /\ edits[2] = AtEnd(orig_doc)

\* C13: given a DELETION of the leading text of a run and an INSERTION with
\* an empty target_text whose match-start index is the end of the text, the
\* insertion is applied, not skipped, and its wrapper ends up after the
\* remaining live run in document order.
C13_InsertAtEnd ==
    (pc = "done" /\ DeleteAndInsertAtEnd) =>
        /\ CountOf(log, "not_found") = 0
        /\ \E w \in Wrappers(doc) :
              /\ doc[w[1]][w[2]].kind = "ins"
              /\ doc[w[1]][w[2]].text = edits[2].new_text
              /\ \A pl \in Places(doc) : IsRun(doc[pl[1]][pl[2]]) => Before(pl, w)

\* C14: the engine is constructed from a document and an author string,
\* and every revision wrapper it creates carries that author and the one
\* date fixed at construction.
C14_Attribution ==
    /\ asked # NoAuthor =>
         /\ pc # "rejected"
         /\ \A w \in Wrappers(doc) : doc[w[1]][w[2]].author = asked
    /\ \A w \in Wrappers(doc) : doc[w[1]][w[2]].date = timestamp

RemoveAt(seq, i) == SubSeq(seq, 1, i - 1) \o SubSeq(seq, i + 1, Len(seq))

\* The place of the i-th resolved run, and of the last one, in the tree as
\* find_target_runs left it.
FoundPlace(i) == PlaceOf(last.found_doc, last.found[i])
LastPlace == FoundPlace(Len(last.found))

\* d is the tree find_target_runs left, with each resolved run replaced in
\* place by a deletion wrapper of its text, the wrappers numbered in order.
RunsWrapped(d) ==
    /\ Len(d) = Len(last.found_doc)
    /\ \A p \in 1..Len(d) : Len(d[p]) = Len(last.found_doc[p])
    /\ \A pl \in Places(d) :
          IF \E i \in 1..Len(last.found) : FoundPlace(i) = pl
          THEN \E i \in 1..Len(last.found) :
                  /\ FoundPlace(i) = pl
                  /\ d[pl[1]][pl[2]].kind = "del"
                  /\ d[pl[1]][pl[2]].text = last.found_doc[pl[1]][pl[2]].text
                  /\ d[pl[1]][pl[2]].id = last.pre_id + i
          ELSE d[pl[1]][pl[2]] = last.found_doc[pl[1]][pl[2]]

\* The child right after the last resolved run (or its wrapper) is the one
\* insertion wrapper of the edit.
InsertedNext ==
    /\ Len(doc[LastPlace[1]]) > LastPlace[2]
    /\ doc[LastPlace[1]][LastPlace[2] + 1].kind = "ins"
    /\ doc[LastPlace[1]][LastPlace[2] + 1].text = last.edit.new_text
    /\ doc[LastPlace[1]][LastPlace[2] + 1].id = current_id
    /\ NewWrappers("ins") = {<<LastPlace[1], LastPlace[2] + 1>>}

WithoutInserted == [doc EXCEPT ![LastPlace[1]] = RemoveAt(@, LastPlace[2] + 1)]

AppliedInserting ==
    {i \in 1..Len(log) : /\ log[i] = "applied"
                         /\ sorted_edits[i].operation \in {"INSERTION", "MODIFICATION"}}

\* C15: an applied DELETION replaces each resolved run, in place and in
\* order, by one deletion wrapper and adds no insertion wrapper; an applied
\* MODIFICATION does the same and adds one insertion wrapper right after
\* the last deletion wrapper; an applied INSERTION adds no deletion wrapper
\* and one insertion wrapper right after the last anchor run.  The
\* insertion wrappers of the document are as many as the applied
\* INSERTION and MODIFICATION edits.
C15_WrapperPlacement ==
    /\ Applied({"DELETION"}) =>
         /\ RunsWrapped(doc)
         /\ NewWrappers("ins") = {}
         /\ current_id = last.pre_id + Len(last.found)
    /\ Applied({"MODIFICATION"}) =>
         /\ InsertedNext
         /\ RunsWrapped(WithoutInserted)
         /\ current_id = last.pre_id + Len(last.found) + 1
    /\ Applied({"INSERTION"}) =>
         /\ InsertedNext
         /\ WithoutInserted = last.found_doc
         /\ NewWrappers("del") = {}
         /\ current_id = last.pre_id + 1
    /\ Cardinality({w \in Wrappers(doc) : doc[w[1]][w[2]].kind = "ins"})
         = Cardinality(AppliedInserting)

\* A MODIFICATION of two runs was applied after another inserting edit.
C15_Witness ==
    /\ Applied({"MODIFICATION"})
    /\ Len(last.found) = 2
    /\ Cardinality(AppliedInserting) = 2

\* The edits of a diff with fusion at diff points only: a delete segment
\* and the insert segment right after it, when that insert has an anchor,
\* become one MODIFICATION; every other segment compiles as in the loop of
\* generate_edits_from_text.
RECURSIVE FusedAtPoints(_, _, _)
FusedAtPoints(diffs, i, last_equal_text) ==
    IF i > Len(diffs) THEN <<>>
    ELSE IF diffs[i].op = 0 THEN FusedAtPoints(diffs, i + 1, diffs[i].text)
    ELSE IF /\ diffs[i].op = -1
            /\ i + 1 <= Len(diffs)
            /\ diffs[i + 1].op = 1
            /\ last_equal_text # <<>>
    THEN <<Edit("MODIFICATION", diffs[i].text, diffs[i + 1].text)>>
           \o FusedAtPoints(diffs, i + 2, last_equal_text)
    ELSE IF diffs[i].op = -1
    THEN <<Edit("DELETION", diffs[i].text, None)>>
           \o FusedAtPoints(diffs, i + 1, last_equal_text)
    ELSE InsertSegment(diffs, i, diffs[i].text, SliceFrom(last_equal_text, -AnchorTail))
           \o FusedAtPoints(diffs, i + 1, last_equal_text)

Compared == text_mod # None /\ pc # "ready"
OrigText == extract_text(orig_doc)

\* C16: the edits the diff compiler returns are the edits of the diff's
\* segments, in order, none lost or doubled, where a DELETION and an
\* INSERTION are fused into a MODIFICATION only when the delete segment is
\* immediately followed by the insert segment, no equal segment between.
C16_FusionAtDiffPoint ==
    Compared => edits = FusedAtPoints(diff_main(OrigText, text_mod), 1, <<>>)

Segments == diff_main(OrigText, text_mod)
InsertSegments == {i \in 1..Len(Segments) : Segments[i].op = 1}

\* The most recent equal segment before segment i; 0 when there is none.
PrevEqual(i) ==
    CHOOSE j \in 0..(i - 1) :
        /\ j # 0 => Segments[j].op = 0
        /\ \A k \in (j + 1)..(i - 1) : Segments[k].op # 0

HasEdit(e) == \E k \in 1..Len(edits) : edits[k] = e

\* Insert segment i has equal text before it and is emitted as an
\* INSERTION anchored at the tail of that text, or fused with the delete
\* segment right before it.
AnchoredBehind(i) ==
    \/ HasEdit(Edit("INSERTION",
                    SliceFrom(Segments[PrevEqual(i)].text, -AnchorTail),
                    Segments[i].text))
    \/ /\ Segments[i - 1].op = -1
       /\ HasEdit(Edit("MODIFICATION", Segments[i - 1].text, Segments[i].text))

\* Insert segment i has no equal text before it and is emitted as a
\* MODIFICATION of a non-empty prefix of the equal segment after it.
AnchoredAhead(i) ==
    \E k \in 1..Len(edits) :
        /\ edits[k].operation = "MODIFICATION"
        /\ edits[k].target_text # <<>>
        /\ IsPrefix(edits[k].target_text, Segments[i + 1].text)
        /\ edits[k].new_text = Segments[i].text \o edits[k].target_text

HasLookahead(i) == i + 1 <= Len(Segments) /\ Segments[i + 1].op = 0

\* C17: an insert segment with equal text before it is emitted as an
\* INSERTION anchored at the last 50 characters of the most recent equal
\* segment; one with none before it and an equal segment after it is
\* emitted as a MODIFICATION of a non-empty prefix of that segment, the new
\* text being the segment followed by the prefix; an insert segment is
\* dropped only when it has neither.  Every emitted target is a non-empty
\* substring of the original text.
C17_InsertAnchoring ==
    Compared =>
        /\ \A i \in InsertSegments :
              IF PrevEqual(i) # 0 THEN AnchoredBehind(i)
              ELSE HasLookahead(i) => AnchoredAhead(i)
        /\ \A k \in 1..Len(edits) :
              /\ edits[k].target_text # <<>>
              /\ IsSubstring(edits[k].target_text, OrigText)

\* The engine stands between two edits: it is constructed, or an edit of
\* apply_edits has completed, or apply_edits has returned.
AtBoundary == pc \in {"ready", "loop", "done"}

\* What the normalizer establishes: no live run is empty, and no two
\* neighbouring runs of a paragraph have equal run properties.
Normalized(d) ==
    \A pl \in Places(d) :
        IsRun(d[pl[1]][pl[2]]) =>
            /\ d[pl[1]][pl[2]].text # <<>>
            /\ (pl[2] < Len(d[pl[1]]) /\ IsRun(d[pl[1]][pl[2] + 1]))
                 => d[pl[1]][pl[2]].rPr # d[pl[1]][pl[2] + 1].rPr

\* C18: after construction and after every completed edit of apply_edits
\* no two neighbouring runs of a paragraph have equal run properties and no
\* live run has empty text.
C18_NormalizedAtBoundaries == AtBoundary => Normalized(doc)

\* The last edit was skipped: its target was not found, or it is an
\* INSERTION or MODIFICATION without new text.
Skipped == last.outcome \in {"not_found", "empty_new"}

\* C19: a skipped edit has no effect: the tree and the revision counter are
\* as they were before the edit, and no run was split for it.
C19_SkipNoEffect ==
    Skipped => /\ doc = last.pre_doc
               /\ current_id = last.pre_id

====
